---- MODULE Spec2Model ----
(***************************************************************************)
(* Model of the run orchestration of sasa_lammps (sasa_main.py):           *)
(* Sasa._process, Sasa._pre_calc, Sasa._exec_lammps_iterations and         *)
(* Sasa._run_lmp, together with the multiprocessing.Pool they drive and    *)
(* the SIGINT traffic between the workers, the operator and the parent.    *)
(*                                                                         *)
(* The parent process is a sequential program whose position is pc.  The   *)
(* pool's task-handler thread, the worker processes and the evaluator      *)
(* (LAMMPS) child processes run concurrently with it.  SIGINT is modelled  *)
(* as CPython handles it: the signal sets a flag in the parent (signals    *)
(* do not queue, so the flag is a boolean) and the main thread raises      *)
(* KeyboardInterrupt before it executes its next statement.  The parent's  *)
(* SIGINT handler outside the suppressed window is Python's default one.   *)
(***************************************************************************)
EXTENDS Integers, Sequences, FiniteSets, TLC

\* Largest number of entries a geometry collaborator returns.
MaxProbes == 3
\* Largest worker count n_procs.
MaxProcs == 2
\* Number of SIGINTs the operator may send during one run.
MaxOperatorSignals == 1

VARIABLES
    pc,              \* position of the parent's main thread
    n_procs,         \* self.n_procs
    single_atom,     \* _count_atoms_in_mol(mol_file) <= 1
    baseline_runs,   \* evaluator invocations made by _pre_calc
    etot_log,        \* "etot" values the baseline evaluator run has logged
    baseline,        \* <<>> until read, then <<e_mol, e_prob>>
    sasa_positions,  \* self.sasa_positions
    neighbors_res,   \* self.neighbors["res"]
    rotations,       \* self.rotations
    run_iterable,    \* the task list of _exec_lammps_iterations
    spec_file,       \* contents of the output file SPEC, one entry per write
    sigint_handler,  \* SIGINT disposition of the parent: "default" or "ignore"
    sigint_pending,  \* a SIGINT is flagged in the parent and not yet handled
    op_signals,      \* SIGINTs the operator has sent so far
    pool,            \* "none", "RUN", "CLOSE" or "TERMINATE"
    progress,        \* tqdm's counter: items taken from run_iterable
    inqueue,         \* the pool's task pipe: indices of queued tasks
    worker,          \* worker -> index of the task it is evaluating, 0 if idle
    invoked,         \* task -> number of evaluator invocations started for it
    status,          \* task -> "none", "ok" or "fail": exit of its evaluator
    returned,        \* tasks whose result the pool has received
    orphans,         \* evaluators still running after their worker was killed
    outcome,         \* "NotStarted", "Running", "Aborted" or "Completed"
    post_started,    \* the postprocessing of _process has been started
    interrupts,      \* history: KeyboardInterrupts raised in the parent
    op_ignored,      \* history: operator SIGINTs that met SIG_IGN in the parent
    op_running       \* history: an operator SIGINT arrived in state Running

vars == <<pc, n_procs, single_atom, baseline_runs, etot_log, baseline,
          sasa_positions, neighbors_res, rotations, run_iterable, spec_file,
          sigint_handler, sigint_pending, op_signals, pool, progress, inqueue,
          worker, invoked, status, returned, orphans, outcome, post_started,
          interrupts, op_ignored, op_running>>

\* The history variables.
histVars == <<interrupts, op_ignored, op_running>>

\* The variables a step of the pool's other processes leaves alone.
inputVars == <<n_procs, single_atom, baseline_runs, etot_log, baseline,
               sasa_positions, neighbors_res, rotations, run_iterable>>

----------------------------------------------------------------------------
(* Values *)

IN_PRE == "in.pre"
IN_TEMPLATE == "in.template"
HEADER == "header"
STALE == "stale"

\* What the baseline run can leave in the log: the last two entries are the
\* energies of the macromolecule and of the probe.
EtotLogs == {<<1, 2>>, <<3, 2, 1>>}

\* Files that can be present where the output file is created.
InitialFiles == {<<>>, <<STALE>>}

Min(a, b) == IF a <= b THEN a ELSE b

Min3(a, b, c) == Min(a, Min(b, c))

Tasks == 1..Len(run_iterable)

Record(t) == <<"record", t>>

IsRecord(e) == e # HEADER /\ e # STALE

NumRecords(f) == Cardinality({i \in 1..Len(f) : IsRecord(f[i])})

HasRecord(f, t) == \E i \in 1..Len(f) : IsRecord(f[i]) /\ f[i] = Record(t)

NumHeaders(f) == Cardinality({i \in 1..Len(f) : f[i] = HEADER})

----------------------------------------------------------------------------
(* Collaborators of the orchestrator.  Entry i of each returned sequence   *)
(* carries i, so that a task can be traced back to the entries it was      *)
(* built from.  The orchestrator does not constrain their lengths.         *)

\* _read_last_two(path, "etot"): the last two logged values.
ReadLastTwo(log) == <<log[Len(log) - 1], log[Len(log)]>>

\* _create_sasa_xyz: n sample positions (x, y, z).
CreateSasaXyz(n) == [i \in 1..n |-> <<i, 0, 0>>]

\* _neighbor_finder(...)["res"]: m residue ids.
NeighborFinder(m) == [i \in 1..m |-> i]

\* _rotate_probe: k rotations (angle, x, y, z) of an n-atomic probe.
RotateProbe(k) == [i \in 1..k |-> <<i, 0, 0, 1>>]

\* _count_atoms_in_macromol(data_file).
CountAtomsInMacromol == 5

----------------------------------------------------------------------------
(* Task construction (_exec_lammps_iterations, lines 142-157) *)

\* np.zeros((n, 4))
Zeros(n) == [i \in 1..n |-> <<0, 0, 0, 0>>]

\* m[:, col] += v, with numpy's 0-based column index.
AddToColumn(m, col, v) == [i \in DOMAIN m |-> [m[i] EXCEPT ![col + 1] = @ + v]]

\* A mutant of SingleAtomRotations: the 1 goes to column 2.
SingleAtomRotationsY(n) == AddToColumn(Zeros(n), 2, 1)

\* A mutant of SingleAtomRotations: the zero rows are left as they are.
SingleAtomRotationsZero(n) == Zeros(n)

\* The else branch of lines 147-150: the rotations of a single-atom probe.
SingleAtomRotations(n) == AddToColumn(Zeros(n), 1, 1)

\* A mutant of Zip3: the second sequence is paired from its far end.
Zip3Reversed(a, b, c) ==
    [i \in 1..Min3(Len(a), Len(b), Len(c)) |-> <<a[i], b[Len(b) + 1 - i], c[i]>>]

\* zip(a, b, c): stops at the end of the shortest sequence.
Zip3(a, b, c) == [i \in 1..Min3(Len(a), Len(b), Len(c)) |-> <<a[i], b[i], c[i]>>]

\* run_iterable: [IN_TEMPLATE, pos, rot, atom_number, res, e_mol, e_prob]
\* for pos, res, rot in zip(sasa_positions, neighbors["res"], rotations).
BuildRunIterable(positions, residues, rots, atom_number, e_mol, e_prob) ==
    LET z == Zip3(positions, residues, rots)
    IN  [i \in DOMAIN z |->
            <<IN_TEMPLATE, z[i][1], z[i][3], atom_number, z[i][2], e_mol, e_prob>>]

\* The parameters of _run_lmp, bound by position from a task.
TaskInFile(task) == task[1]
TaskPos(task) == task[2]
TaskRot(task) == task[3]
TaskAtomNumber(task) == task[4]
TaskRes(task) == task[5]
TaskEMol(task) == task[6]
TaskEProb(task) == task[7]

\* The rotation variables of the evaluator's command line (lines 223-225).
RotAng(rot) == rot[1]
RotVec(rot) == <<rot[2], rot[3], rot[4]>>

----------------------------------------------------------------------------
(* Initial state: a Sasa object has been constructed *)

Init ==
    /\ pc = "pre_run"
    /\ n_procs \in 1..MaxProcs
    /\ single_atom \in BOOLEAN
    /\ baseline_runs = 0
    /\ etot_log = <<>>
    /\ baseline = <<>>
    /\ sasa_positions = <<>>
    /\ neighbors_res = <<>>
    /\ rotations = <<>>
    /\ run_iterable = <<>>
    /\ spec_file \in InitialFiles
    /\ sigint_handler = "default"
    /\ sigint_pending = FALSE
    /\ op_signals = 0
    /\ pool = "none"
    /\ progress = 0
    /\ inqueue = <<>>
    /\ worker = <<>>
    /\ invoked = <<>>
    /\ status = <<>>
    /\ returned = {}
    /\ orphans = {}
    /\ outcome = "NotStarted"
    /\ post_started = FALSE
    /\ interrupts = 0
    /\ op_ignored = 0
    /\ op_running = FALSE

----------------------------------------------------------------------------
(* SIGINT *)

\* A mutant of Flagged: the suppressed window defers the signal.
FlaggedDeferred(pending, handler) == TRUE

\* A SIGINT sent to the parent: flagged unless the disposition is SIG_IGN,
\* in which case it is discarded.
Flagged(pending, handler) == IF handler = "ignore" THEN pending ELSE TRUE

\* The main thread has a KeyboardInterrupt to raise before its next statement.
Interrupted == sigint_pending /\ sigint_handler = "default"

\* The parent process is still running.
Alive == pc \notin {"done", "raised"}

\* The workers that are evaluating a task.
Busy == {w \in DOMAIN worker : worker[w] # 0}

\* pool.terminate() (also Pool.__exit__): the queued tasks are dropped and
\* the workers are killed; the evaluators they were waiting for are not.
TerminatePool ==
    /\ pool' = "TERMINATE"
    /\ inqueue' = <<>>
    /\ orphans' = orphans \cup {worker[w] : w \in Busy}
    /\ worker' = <<>>

----------------------------------------------------------------------------
(* The parent: _process, _pre_calc, _exec_lammps_iterations *)

poolVars == <<pool, progress, inqueue, worker, invoked, status, returned, orphans>>
sigVars == <<sigint_handler, sigint_pending, op_signals>>
geomVars == <<sasa_positions, neighbors_res, rotations, run_iterable>>

\* A mutant of PreCalcRunOk: one evaluator run per baseline energy.
PreCalcRunTwice ==
    /\ pc = "pre_run" /\ ~Interrupted
    /\ \E log \in EtotLogs : etot_log' = log
    /\ baseline_runs' = baseline_runs + 2
    /\ pc' = "pre_read"
    /\ UNCHANGED <<histVars, n_procs, single_atom, baseline, geomVars, spec_file, sigVars,
                   poolVars, outcome, post_started>>

\* _pre_calc, lines 121-125: the one call of _run_lmp(IN_PRE, ...), the
\* evaluator exits with status 0 and has logged its energies.
PreCalcRunOk ==
    /\ pc = "pre_run" /\ ~Interrupted
    /\ \E log \in EtotLogs : etot_log' = log
    /\ baseline_runs' = baseline_runs + 1
    /\ pc' = "pre_read"
    /\ UNCHANGED <<histVars, n_procs, single_atom, baseline, geomVars, spec_file, sigVars,
                   poolVars, outcome, post_started>>

\* A mutant of PreCalcRunFail: the failure is printed and _pre_calc goes on.
PreCalcRunFailSwallowed ==
    /\ pc = "pre_run" /\ ~Interrupted
    /\ baseline_runs' = baseline_runs + 1
    /\ pc' = "pre_read"
    /\ UNCHANGED <<histVars, n_procs, single_atom, etot_log, baseline, geomVars,
                   spec_file, sigVars, poolVars, outcome, post_started>>

\* The same call, the evaluator exits non-zero: _run_lmp sends SIGINT to
\* parent_pid, here its own process, and os.kill raises KeyboardInterrupt,
\* which nothing in _process catches.
PreCalcRunFail ==
    /\ pc = "pre_run" /\ ~Interrupted
    /\ baseline_runs' = baseline_runs + 1
    /\ pc' = "raised"
    /\ outcome' = "Aborted"
    /\ interrupts' = interrupts + 1
    /\ UNCHANGED <<n_procs, single_atom, etot_log, baseline, geomVars, spec_file,
                   sigVars, poolVars, post_started, op_ignored, op_running>>

\* A mutant of PreCalcRead: the energies keep the defaults of _run_lmp.
PreCalcReadDefaults ==
    /\ pc = "pre_read" /\ ~Interrupted
    /\ baseline' = <<0, 0>>
    /\ pc' = "geometry"
    /\ UNCHANGED <<histVars, n_procs, single_atom, baseline_runs, etot_log, geomVars,
                   spec_file, sigVars, poolVars, outcome, post_started>>

\* _pre_calc, lines 127-129: e_mol, e_prob = _read_last_two(path, "etot").
PreCalcRead ==
    /\ pc = "pre_read" /\ ~Interrupted
    /\ baseline' = ReadLastTwo(etot_log)
    /\ pc' = "geometry"
    /\ UNCHANGED <<histVars, n_procs, single_atom, baseline_runs, etot_log, geomVars,
                   spec_file, sigVars, poolVars, outcome, post_started>>

\* _process, lines 79-90: the sample positions and the neighbor list.
Geometry ==
    /\ pc = "geometry" /\ ~Interrupted
    /\ \E n \in 0..MaxProbes : sasa_positions' = CreateSasaXyz(n)
    /\ \E m \in 0..MaxProbes : neighbors_res' = NeighborFinder(m)
    /\ pc' = "write_header"
    /\ UNCHANGED <<histVars, n_procs, single_atom, baseline_runs, etot_log, baseline,
                   rotations, run_iterable, spec_file, sigVars, poolVars,
                   outcome, post_started>>

\* A mutant of WriteHeader: the file is opened for appending.
WriteHeaderAppend ==
    /\ pc = "write_header" /\ ~Interrupted
    /\ spec_file' = Append(spec_file, HEADER)
    /\ pc' = "rotate"
    /\ UNCHANGED <<histVars, inputVars, sigVars, poolVars, outcome, post_started>>

\* Lines 137-140: open(SPEC, "w") truncates the file, then the header.
WriteHeader ==
    /\ pc = "write_header" /\ ~Interrupted
    /\ spec_file' = <<HEADER>>
    /\ pc' = "rotate"
    /\ UNCHANGED <<histVars, inputVars, sigVars, poolVars, outcome, post_started>>

\* Lines 142-150, with n_probes = len(self.sasa_positions).
Rotate ==
    /\ pc = "rotate" /\ ~Interrupted
    /\ IF single_atom
          THEN rotations' = SingleAtomRotations(Len(sasa_positions))
          ELSE \E k \in 0..MaxProbes : rotations' = RotateProbe(k)
    /\ pc' = "build"
    /\ UNCHANGED <<histVars, n_procs, single_atom, baseline_runs, etot_log, baseline,
                   sasa_positions, neighbors_res, run_iterable, spec_file,
                   sigVars, poolVars, outcome, post_started>>

\* Lines 152-157.
Build ==
    /\ pc = "build" /\ ~Interrupted
    /\ run_iterable' = BuildRunIterable(sasa_positions, neighbors_res, rotations,
                                        CountAtomsInMacromol, baseline[1], baseline[2])
    /\ invoked' = [t \in 1..Len(run_iterable') |-> 0]
    /\ status' = [t \in 1..Len(run_iterable') |-> "none"]
    /\ pc' = "sig_ign"
    /\ UNCHANGED <<histVars, n_procs, single_atom, baseline_runs, etot_log, baseline,
                   sasa_positions, neighbors_res, rotations, spec_file, sigVars,
                   pool, progress, inqueue, worker, returned, orphans, outcome,
                   post_started>>

\* Line 161: signal.signal(SIGINT, SIG_IGN).
IgnoreSigint ==
    /\ pc = "sig_ign" /\ ~Interrupted
    /\ sigint_handler' = "ignore"
    /\ pc' = "pool_create"
    /\ UNCHANGED <<histVars, inputVars, spec_file, sigint_pending, op_signals, poolVars,
                   outcome, post_started>>

\* A mutant of CreatePool: one worker more than n_procs.
CreatePoolExtra ==
    /\ pc = "pool_create"
    /\ pool' = "RUN"
    /\ worker' = [w \in 1..(n_procs + 1) |-> 0]
    /\ pc' = "sig_restore"
    /\ UNCHANGED <<histVars, inputVars, spec_file, sigVars, progress, inqueue,
                   invoked, status, returned, orphans, outcome, post_started>>

\* Line 162: Pool(processes=n_procs); the workers inherit SIG_IGN.
CreatePool ==
    /\ pc = "pool_create"
    /\ pool' = "RUN"
    /\ worker' = [w \in 1..n_procs |-> 0]
    /\ pc' = "sig_restore"
    /\ UNCHANGED <<histVars, inputVars, spec_file, sigVars, progress, inqueue, invoked,
                   status, returned, orphans, outcome, post_started>>

\* A mutant of RestoreSigint: the original handler is not put back.
RestoreSigintSkipped ==
    /\ pc = "sig_restore"
    /\ pc' = "starmap"
    /\ UNCHANGED <<histVars, inputVars, spec_file, sigVars, poolVars, outcome,
                   post_started>>

\* Line 163: signal.signal(SIGINT, original_sigint_handler).
RestoreSigint ==
    /\ pc = "sig_restore"
    /\ sigint_handler' = "default"
    /\ pc' = "starmap"
    /\ UNCHANGED <<histVars, inputVars, spec_file, sigint_pending, op_signals, poolVars,
                   outcome, post_started>>

\* Lines 165-167: starmap hands the tqdm-wrapped list to the task handler
\* and waits for the results.
StarmapSubmit ==
    /\ pc = "starmap" /\ ~Interrupted
    /\ outcome' = "Running"
    /\ pc' = "wait"
    /\ UNCHANGED <<histVars, inputVars, spec_file, sigVars, poolVars, post_started>>

\* A mutant of StarmapReturn: the results are not waited for.
StarmapReturnEarly ==
    /\ pc = "wait" /\ ~Interrupted
    /\ pc' = "else"
    /\ UNCHANGED <<histVars, inputVars, spec_file, sigVars, poolVars, outcome,
                   post_started>>

\* starmap returns: every task's result has arrived.
StarmapReturn ==
    /\ pc = "wait" /\ ~Interrupted
    /\ returned = Tasks
    /\ pc' = "else"
    /\ UNCHANGED <<histVars, inputVars, spec_file, sigVars, poolVars, outcome, post_started>>

\* Lines 170-171: pool.close().
PoolClose ==
    /\ pc = "else" /\ ~Interrupted
    /\ pool' = "CLOSE"
    /\ outcome' = "Completed"
    /\ pc' = "with_exit"
    /\ UNCHANGED <<histVars, inputVars, spec_file, sigVars, progress, inqueue, worker,
                   invoked, status, returned, orphans, post_started>>

\* A mutant of PoolTerminate: the partial output is reset on abort.
PoolTerminateCleanup ==
    /\ pc = "except" /\ ~Interrupted
    /\ TerminatePool
    /\ spec_file' = <<HEADER>>
    /\ pc' = "with_exit"
    /\ UNCHANGED <<histVars, inputVars, sigVars, progress, invoked, status,
                   returned, outcome, post_started>>

\* Lines 168-169: pool.terminate() in the KeyboardInterrupt handler.
PoolTerminate ==
    /\ pc = "except" /\ ~Interrupted
    /\ TerminatePool
    /\ pc' = "with_exit"
    /\ UNCHANGED <<histVars, inputVars, spec_file, sigVars, progress, invoked, status,
                   returned, outcome, post_started>>

\* End of the with block: Pool.__exit__ calls terminate().
WithExit ==
    /\ pc = "with_exit" /\ ~Interrupted
    /\ TerminatePool
    /\ pc' = "exec_return"
    /\ UNCHANGED <<histVars, inputVars, spec_file, sigVars, progress, invoked, status,
                   returned, outcome, post_started>>

\* Line 174: return 0, whichever branch was taken.
ExecReturn ==
    /\ pc = "exec_return" /\ ~Interrupted
    /\ pc' = "postprocess"
    /\ UNCHANGED <<histVars, inputVars, spec_file, sigVars, poolVars, outcome, post_started>>

\* _process, lines 95-106: neighbor, atom and residue analysis of the output
\* file, then return 0.
Postprocess ==
    /\ pc = "postprocess" /\ ~Interrupted
    /\ post_started' = TRUE
    /\ pc' = "done"
    /\ UNCHANGED <<histVars, inputVars, spec_file, sigVars, poolVars, outcome>>

\* The main thread raises KeyboardInterrupt.  Inside the try (lines 164-167)
\* the except clause takes it.  Anywhere else in the with block it leaves
\* through Pool.__exit__, which terminates the pool, and then leaves _process;
\* outside the with block it leaves _process at once.
HandleSigint ==
    /\ Alive /\ Interrupted
    /\ sigint_pending' = FALSE
    /\ interrupts' = interrupts + 1
    /\ outcome' = IF outcome = "Completed" THEN outcome ELSE "Aborted"
    /\ IF pc \in {"starmap", "wait"}
          THEN /\ pc' = "except"
               /\ UNCHANGED <<pool, inqueue, orphans, worker>>
          ELSE /\ pc' = "raised"
               /\ IF pc \in {"else", "except", "with_exit"}
                     THEN TerminatePool
                     ELSE UNCHANGED <<pool, inqueue, orphans, worker>>
    /\ UNCHANGED <<inputVars, spec_file, sigint_handler, op_signals, progress,
                   invoked, status, returned, post_started, op_ignored, op_running>>

\* The operator presses Ctrl-C: the parent flags or discards the signal, the
\* workers ignore it.
OperatorSigint ==
    /\ Alive
    /\ op_signals < MaxOperatorSignals
    /\ op_signals' = op_signals + 1
    /\ sigint_pending' = Flagged(sigint_pending, sigint_handler)
    /\ op_ignored' = IF sigint_handler = "ignore" THEN op_ignored + 1 ELSE op_ignored
    /\ op_running' = (op_running \/ outcome = "Running")
    /\ UNCHANGED <<pc, inputVars, spec_file, sigint_handler, poolVars, outcome,
                   post_started, interrupts>>

----------------------------------------------------------------------------
(* The pool: task handler thread, workers, evaluators *)

\* The task handler takes the next item from the tqdm iterator, which counts
\* it, and writes it to the task pipe.
TaskHandlerPut ==
    /\ pool = "RUN"
    /\ pc \in {"wait", "except", "else"}
    /\ progress < Len(run_iterable)
    /\ progress' = progress + 1
    /\ inqueue' = Append(inqueue, progress + 1)
    /\ UNCHANGED <<histVars, pc, inputVars, spec_file, sigVars, pool, worker, invoked,
                   status, returned, orphans, outcome, post_started>>

\* An idle worker reads a task from the pipe and calls _run_lmp, which
\* starts the evaluator (subprocess.run, lines 231-234).
WorkerGet(w) ==
    /\ pool \in {"RUN", "CLOSE"}
    /\ worker[w] = 0
    /\ inqueue # <<>>
    /\ worker' = [worker EXCEPT ![w] = Head(inqueue)]
    /\ inqueue' = Tail(inqueue)
    /\ invoked' = [invoked EXCEPT ![Head(inqueue)] = @ + 1]
    /\ UNCHANGED <<histVars, pc, inputVars, spec_file, sigVars, pool, progress, status,
                   returned, orphans, outcome, post_started>>

\* The evaluator exits with status 0, having appended its record to the
\* output file; _run_lmp returns and the worker reports the result.
EvaluatorOk(w) ==
    /\ w \in Busy
    /\ spec_file' = Append(spec_file, Record(worker[w]))
    /\ status' = [status EXCEPT ![worker[w]] = "ok"]
    /\ returned' = returned \cup {worker[w]}
    /\ worker' = [worker EXCEPT ![w] = 0]
    /\ UNCHANGED <<histVars, pc, inputVars, sigVars, pool, progress, inqueue, invoked,
                   orphans, outcome, post_started>>

\* A mutant of EvaluatorFail: the failure is printed and nothing else.
EvaluatorFailSwallowed(w) ==
    /\ w \in Busy
    /\ status' = [status EXCEPT ![worker[w]] = "fail"]
    /\ returned' = returned \cup {worker[w]}
    /\ worker' = [worker EXCEPT ![w] = 0]
    /\ UNCHANGED <<histVars, pc, inputVars, spec_file, sigVars, pool, progress, inqueue,
                   invoked, orphans, outcome, post_started>>

\* A mutant of EvaluatorFail: the failed task is put back on the task pipe.
EvaluatorFailRetried(w) ==
    /\ w \in Busy
    /\ invoked[worker[w]] < 2
    /\ status' = [status EXCEPT ![worker[w]] = "fail"]
    /\ inqueue' = Append(inqueue, worker[w])
    /\ worker' = [worker EXCEPT ![w] = 0]
    /\ UNCHANGED <<histVars, pc, inputVars, spec_file, sigVars, pool, progress, invoked,
                   returned, orphans, outcome, post_started>>

\* The evaluator exits non-zero (lines 235-241): _run_lmp prints its output,
\* sends SIGINT to parent_pid and returns 0, so the worker reports a result
\* and is free for the next task.  The signal is sent before the result.
EvaluatorFail(w) ==
    /\ w \in Busy
    /\ status' = [status EXCEPT ![worker[w]] = "fail"]
    /\ sigint_pending' = Flagged(sigint_pending, sigint_handler)
    /\ returned' = returned \cup {worker[w]}
    /\ worker' = [worker EXCEPT ![w] = 0]
    /\ UNCHANGED <<histVars, pc, inputVars, spec_file, sigint_handler, op_signals, pool,
                   progress, inqueue, invoked, orphans, outcome, post_started>>

\* An evaluator whose worker was killed runs on and appends its record.
OrphanOk(t) ==
    /\ t \in orphans
    /\ spec_file' = Append(spec_file, Record(t))
    /\ status' = [status EXCEPT ![t] = "ok"]
    /\ orphans' = orphans \ {t}
    /\ UNCHANGED <<histVars, pc, inputVars, sigVars, pool, progress, inqueue, worker,
                   invoked, returned, outcome, post_started>>

\* An evaluator whose worker was killed exits non-zero: nobody is told.
OrphanFail(t) ==
    /\ t \in orphans
    /\ status' = [status EXCEPT ![t] = "fail"]
    /\ orphans' = orphans \ {t}
    /\ UNCHANGED <<histVars, pc, inputVars, spec_file, sigVars, pool, progress, inqueue,
                   worker, invoked, returned, outcome, post_started>>

----------------------------------------------------------------------------

Next ==
    \/ PreCalcRunOk
    \/ PreCalcRunFail
    \/ PreCalcRead
    \/ Geometry
    \/ WriteHeader
    \/ Rotate
    \/ Build
    \/ IgnoreSigint
    \/ CreatePool
    \/ RestoreSigint
    \/ StarmapSubmit
    \/ StarmapReturn
    \/ PoolClose
    \/ PoolTerminate
    \/ WithExit
    \/ ExecReturn
    \/ Postprocess
    \/ HandleSigint
    \/ OperatorSigint
    \/ TaskHandlerPut
    \/ \E w \in DOMAIN worker : WorkerGet(w)
    \/ \E w \in DOMAIN worker : EvaluatorOk(w)
    \/ \E w \in DOMAIN worker : EvaluatorFail(w)
    \/ \E t \in orphans : OrphanOk(t)
    \/ \E t \in orphans : OrphanFail(t)

Spec == Init /\ [][Next]_vars

\* The statements of the parent's main thread.
ParentStep ==
    \/ PreCalcRunOk \/ PreCalcRunFail \/ PreCalcRead \/ Geometry \/ WriteHeader
    \/ Rotate \/ Build \/ IgnoreSigint \/ CreatePool \/ RestoreSigint
    \/ StarmapSubmit \/ StarmapReturn \/ PoolClose \/ PoolTerminate \/ WithExit
    \/ ExecReturn \/ Postprocess \/ HandleSigint

\* A step of worker w of the pool: it takes a task, or its evaluator exits.
WorkerTakes(w) == w \in DOMAIN worker /\ WorkerGet(w)
EvaluatorExits(w) == w \in DOMAIN worker /\ (EvaluatorOk(w) \/ EvaluatorFail(w))

\* The parent, the task handler thread and the worker processes are all
\* scheduled by the operating system, and every evaluator run terminates.
Fairness ==
    /\ WF_vars(ParentStep)
    /\ WF_vars(TaskHandlerPut)
    /\ \A w \in 1..MaxProcs : WF_vars(WorkerTakes(w)) /\ WF_vars(EvaluatorExits(w))

FairSpec == Spec /\ Fairness

TypeOK ==
    /\ pc \in {"pre_run", "pre_read", "geometry", "write_header", "rotate",
               "build", "sig_ign", "pool_create", "sig_restore", "starmap",
               "wait", "else", "except", "with_exit", "exec_return",
               "postprocess", "done", "raised"}
    /\ n_procs \in 1..MaxProcs
    /\ single_atom \in BOOLEAN
    /\ baseline_runs \in 0..1
    /\ sigint_handler \in {"default", "ignore"}
    /\ sigint_pending \in BOOLEAN
    /\ op_signals \in 0..MaxOperatorSignals
    /\ pool \in {"none", "RUN", "CLOSE", "TERMINATE"}
    /\ progress \in 0..Len(run_iterable)
    /\ \A w \in DOMAIN worker : worker[w] \in 0..Len(run_iterable)
    /\ returned \subseteq Tasks
    /\ orphans \subseteq Tasks
    /\ outcome \in {"NotStarted", "Running", "Aborted", "Completed"}
    /\ post_started \in BOOLEAN

----------------------------------------------------------------------------
(* Properties *)

\* The tasks whose evaluator invocation has failed.
Failed == {t \in Tasks : status[t] = "fail"}

\* The tasks whose evaluator invocation has been started.
Started == {t \in Tasks : invoked[t] > 0}

\* The parent has left the pool's with block.
SchedulerLeft == pc \in {"exec_return", "postprocess", "done"} \/ (pc = "raised" /\ pool # "none")

\* The three sequences handed to the task builder differ in length.
Misaligned ==
    \/ Len(sasa_positions) # Len(neighbors_res)
    \/ Len(sasa_positions) # Len(rotations)

\* C1: fail-fast.  Once a task's evaluator invocation has failed, the run is
\* never Completed, it is Aborted when the parent has left the scheduler, and
\* the output file holds fewer result records than there are tasks.
C1_FailFast ==
    Failed # {} =>
        /\ outcome # "Completed"
        /\ SchedulerLeft => outcome = "Aborted"
        /\ NumRecords(spec_file) < Len(run_iterable)

\* C1 witness: a run of several tasks has ended after a failure, with a
\* record of another task in the file.
C1_Witness ==
    /\ pc = "done"
    /\ Failed # {}
    /\ outcome = "Aborted"
    /\ NumRecords(spec_file) >= 1

\* C2: once the run is Aborted, no postprocessing is started and _process
\* does not return normally.
C2_AbortStopsRun == outcome = "Aborted" => ~post_started /\ pc # "done"

\* C3: after an evaluator invocation has failed, no further evaluator
\* invocation is started.
C3_NoStartAfterFailure == [][Failed # {} => invoked' = invoked]_vars

\* C4: whenever a task has been queued or its evaluator started, the baseline
\* evaluator run has finished and both energies have been read from its log.
C4_BaselineBeforeTasks ==
    (Started # {} \/ progress > 0) =>
        /\ baseline_runs >= 1
        /\ etot_log # <<>>
        /\ baseline = ReadLastTwo(etot_log)

\* C4 witness: an evaluator runs for a task, with both energies read.
C4_Witness == Started # {} /\ Len(baseline) = 2 /\ Busy # {}

\* C5: from the creation of the pool onward the output file holds exactly
\* one header, as its first entry (so before every record, and before any
\* evaluator was started); with no tasks it holds the header only.
C5_HeaderFirst ==
    (pool # "none" \/ Started # {}) =>
        /\ NumHeaders(spec_file) = 1
        /\ spec_file[1] = HEADER
        /\ NumRecords(spec_file) = Len(spec_file) - 1
        /\ Len(run_iterable) = 0 => spec_file = <<HEADER>>

\* C5 witness: the header is followed by the records of two tasks.
C5_Witness == NumRecords(spec_file) >= 2 /\ spec_file[1] = HEADER

\* C6: with input sequences of different lengths no task list is built, no
\* pool is created and no evaluator is started for a task.
C6_MisalignedIsFatal ==
    (Misaligned /\ pc \notin {"pre_run", "pre_read", "geometry", "write_header",
                              "rotate", "build"}) =>
        /\ run_iterable = <<>>
        /\ pool = "none"
        /\ Started = {}

\* C7: for input sequences of equal length the task list handed to the pool
\* has their length, and task i carries the template, position i, rotation i,
\* the atom count, residue i and the two baseline energies.
C7_BuildTasks ==
    (pool # "none" /\ ~Misaligned) =>
        /\ Len(run_iterable) = Len(sasa_positions)
        /\ \A i \in 1..Len(sasa_positions) :
              /\ TaskInFile(run_iterable[i]) = IN_TEMPLATE
              /\ TaskPos(run_iterable[i]) = sasa_positions[i]
              /\ TaskRot(run_iterable[i]) = rotations[i]
              /\ TaskAtomNumber(run_iterable[i]) = CountAtomsInMacromol
              /\ TaskRes(run_iterable[i]) = neighbors_res[i]
              /\ TaskEMol(run_iterable[i]) = baseline[1]
              /\ TaskEProb(run_iterable[i]) = baseline[2]

\* C7 witness: a task list built from aligned sequences of length two or more.
C7_Witness == pool # "none" /\ ~Misaligned /\ Len(run_iterable) >= 2

\* C8: for a single-atom probe every rotation, in the rotation table and in
\* every task, has an axis other than (0, 0, 0).
C8_SingleAtomAxisNonZero ==
    single_atom =>
        /\ \A i \in 1..Len(rotations) : RotVec(rotations[i]) # <<0, 0, 0>>
        /\ \A t \in Tasks : RotVec(TaskRot(run_iterable[t])) # <<0, 0, 0>>

\* C8 witness: a single-atom probe, an evaluator started for one of two tasks.
C8_Witness == single_atom /\ Len(run_iterable) >= 2 /\ Started # {}

Queued == {inqueue[i] : i \in 1..Len(inqueue)}

\* The tasks whose evaluator is running.
Running == {worker[w] : w \in Busy} \cup orphans

\* C10: no task's evaluator is invoked more than once, a failed task is
\* neither queued nor running again, and in a Completed run every task's
\* evaluator has been invoked exactly once.
C10_NoRetries ==
    /\ \A t \in Tasks : invoked[t] <= 1
    /\ \A t \in Failed : t \notin Queued /\ t \notin Running
    /\ outcome = "Completed" => \A t \in Tasks : invoked[t] = 1

\* C10 witness: the pool is gone, one task had failed and another succeeded.
C10_Witness ==
    /\ pool = "TERMINATE"
    /\ \E t \in Failed : \E u \in Tasks : u # t /\ status[u] = "ok" /\ invoked[t] = 1

\* C11: after an operator SIGINT that arrived in state Running the run is
\* never Completed and the pool is never closed; the signal is pending or the
\* run is Aborted; and once the parent has left the scheduler the pool is
\* terminated with no task left queued and no worker left to run one.
C11_OperatorAbort ==
    op_running =>
        /\ outcome # "Completed"
        /\ pool # "CLOSE"
        /\ sigint_pending \/ outcome = "Aborted"
        /\ (SchedulerLeft \/ ~Alive) =>
              /\ outcome = "Aborted"
              /\ pool = "TERMINATE"
              /\ inqueue = <<>>
              /\ worker = <<>>

\* C11 witness: the run has ended after an operator SIGINT in state Running,
\* with no failure, a task never started and an evaluator abandoned.
C11_Witness ==
    /\ op_running /\ pc = "done" /\ Failed = {}
    /\ Started # Tasks
    /\ orphans # {}

\* The baseline evaluator run has exited non-zero.
BaselineFailed == baseline_runs > 0 /\ etot_log = <<>>

\* C12: after a failed baseline run the parent has left _process with an
\* exception: the energies are unset, no task list is built, no header is
\* written, no pool exists and no task's evaluator is started.
C12_BaselineFailureAborts ==
    BaselineFailed =>
        /\ pc = "raised"
        /\ outcome = "Aborted"
        /\ baseline = <<>>
        /\ run_iterable = <<>>
        /\ NumHeaders(spec_file) = 0
        /\ pool = "none"
        /\ Started = {} /\ progress = 0

\* C12 witness: the baseline run has failed and the parent has stopped.
C12_Witness == BaselineFailed /\ pc = "raised" /\ interrupts = 1

\* Something went wrong: an evaluator run failed or the operator interrupted.
Fault == Failed # {} \/ BaselineFailed \/ op_signals > 0

\* C13: under fair scheduling a run without a failed evaluator run and
\* without an operator SIGINT eventually is Completed; a Completed run has
\* exactly one record per task, every result received and no evaluator
\* running, and the pool is closed only in that situation.
C13_EventuallyCompleted ==
    /\ <>(outcome = "Completed" \/ Fault)
    /\ []((outcome = "Completed" \/ pool = "CLOSE") =>
            /\ NumRecords(spec_file) = Len(run_iterable)
            /\ \A t \in Tasks : status[t] = "ok" /\ HasRecord(spec_file, t)
            /\ returned = Tasks
            /\ Running = {})

\* C13 witness: three tasks on two workers, the run has ended Completed.
C13_Witness ==
    /\ pc = "done" /\ outcome = "Completed"
    /\ Len(run_iterable) = 3 /\ n_procs = 2
    /\ NumRecords(spec_file) = 3

\* C14 as stated, its part on the suppressed window: a run that got an
\* operator SIGINT while SIGINT was ignored in the parent is never Completed
\* and has ended Aborted when _process returns.
C14_SuppressedSignalAborts ==
    op_ignored > 0 =>
        /\ outcome # "Completed"
        /\ pc = "done" => outcome = "Aborted"

\* The KeyboardInterrupts raised or about to be raised in the parent.
Observed == interrupts + (IF sigint_pending THEN 1 ELSE 0)

\* C14 as amended: an operator SIGINT that arrives while the parent's handler
\* is in place is flagged in the parent and raised there, signals flagged
\* together being raised as one; an operator SIGINT that arrives while the
\* parent ignores SIGINT is discarded and raises nothing; and no operator
\* SIGINT changes anything in the workers, their queue or their evaluators.
C14_OperatorSignalObserved ==
    /\ [](/\ op_signals - op_ignored > 0 => Observed >= 1
          /\ Observed <= (op_signals - op_ignored) + Cardinality(Failed)
                            + (IF BaselineFailed THEN 1 ELSE 0))
    /\ [][op_signals' # op_signals =>
            UNCHANGED <<pc, pool, worker, inqueue, invoked, status, returned,
                        orphans, spec_file, interrupts>>]_vars

\* C14 witness: an operator SIGINT was discarded in the suppressed window and
\* the run has ended Completed without any KeyboardInterrupt.
C14_Witness ==
    /\ op_ignored > 0 /\ pc = "done"
    /\ outcome = "Completed" /\ interrupts = 0
    /\ Len(run_iterable) >= 1

\* C15: Aborted and Completed are absorbing, and when only evaluator
\* failures signal the parent (no operator SIGINT), at most one
\* KeyboardInterrupt is raised there, however many workers fail and
\* whenever their signals arrive.
C15_TerminalAbsorbing ==
    /\ [](op_signals = 0 => interrupts <= 1)
    /\ [][(outcome = "Aborted" \/ outcome = "Completed") => UNCHANGED outcome]_vars

\* The evaluator invocations in flight: started and not yet exited.
InFlight == {t \in Tasks : invoked[t] > 0 /\ status[t] = "none"}

\* C16: at most n_procs evaluator invocations are in flight, the pool has at
\* most n_procs workers, every invocation in flight belongs to one worker (or
\* to none, once the workers are killed) and no two workers run the same one.
C16_BoundedInFlight ==
    /\ Cardinality(InFlight) <= n_procs
    /\ Cardinality(DOMAIN worker) <= n_procs
    /\ InFlight = Running
    /\ \A v, w \in Busy : worker[v] = worker[w] => v = w

\* C16 witness: two workers are both evaluating and a third task is queued.
C16_Witness ==
    /\ n_procs = 2 /\ Cardinality(InFlight) = 2 /\ Cardinality(Busy) = 2
    /\ inqueue # <<>>

\* C17 as stated: for a single-atom probe every task's rotation is
\* angle 0 about the axis (0, 1, 0).
C17_DefaultOrientationY ==
    single_atom =>
        \A t \in Tasks :
            /\ RotAng(TaskRot(run_iterable[t])) = 0
            /\ RotVec(TaskRot(run_iterable[t])) = <<0, 1, 0>>

\* C17 as amended: for a single-atom probe every task's rotation is
\* angle 0 about the axis (1, 0, 0), and the table has one row per position.
C17_DefaultOrientationX ==
    single_atom =>
        /\ pc \notin {"pre_run", "pre_read", "geometry", "write_header", "rotate", "raised"}
              => Len(rotations) = Len(sasa_positions)
        /\ \A t \in Tasks :
              /\ RotAng(TaskRot(run_iterable[t])) = 0
              /\ RotVec(TaskRot(run_iterable[t])) = <<1, 0, 0>>

\* C17 witness: a single-atom probe, a task's evaluator has run to its end
\* and _process has returned.
C17_Witness ==
    /\ single_atom /\ pc = "done"
    /\ \E t \in Tasks : status[t] = "ok"

\* The tasks whose evaluator invocation has finished.
Finished == {t \in Tasks : status[t] # "none"}

\* C18: the progress counter never decreases and never exceeds the number
\* of tasks whose evaluator invocation has finished.
C18_ProgressCountsCompleted ==
    /\ [][progress' >= progress]_vars
    /\ [](progress <= Cardinality(Finished))

\* f is an initial part of g.
IsPrefix(f, g) == Len(f) <= Len(g) /\ SubSeq(g, 1, Len(f)) = f

\* C19: once the header is written the output file only grows, by one result
\* record at a time: no step, whether an abort, a pool termination or any
\* other step of the parent, removes or rewrites an entry, and no step of
\* the parent's main thread writes to the file again.
C19_AppendOnly ==
    /\ [](NumHeaders(spec_file) <= 1)
    /\ [][NumHeaders(spec_file) = 1 =>
            /\ IsPrefix(spec_file, spec_file')
            /\ spec_file' # spec_file =>
                  /\ Len(spec_file') = Len(spec_file) + 1
                  /\ IsRecord(spec_file'[Len(spec_file')])
                  /\ pc' = pc]_vars

\* C19 witness: an Aborted run has ended with the header and two records in
\* the file and a task that was never started.
C19_Witness ==
    /\ outcome = "Aborted" /\ pc = "done" /\ pool = "TERMINATE"
    /\ spec_file[1] = HEADER /\ NumRecords(spec_file) >= 2
    /\ Started # Tasks

====
